---- MODULE Spec2Model ----
(***************************************************************************)
(* A model of proxalgs/operators.py: the proximal operators, the toolz     *)
(* currying every operator is wrapped in, the import of the module, and    *)
(* the caller-owned SFO optimizer that sfo drives.                          *)
(*                                                                         *)
(* Numbers are exact rationals <<numerator, denominator>> (denominator     *)
(* positive, lowest terms); an array is a record [shape, data] with the    *)
(* data in row-major order.                                                *)
(***************************************************************************)
EXTENDS Integers, Sequences, FiniteSets, TLC

VARIABLES
    module,      \* "unloaded", "loaded" or "ImportError": the import of operators.py
    backend,     \* whether skimage (the total-variation backend) can be imported
    lib,         \* what the external solvers do: fixed, and known once one has run
    mem,         \* the caller's arrays, by name
    owned,       \* the values the caller itself gave those names
    fn,          \* the curried function the caller has bound
    call,        \* the operator call that returned last
    prev,        \* the call before it
    ncalls,      \* calls started so far
    pc,          \* per thread: where it stands inside sfo
    frame,       \* per thread: the arguments of its sfo call
    opt,         \* per optimizer instance: the SFO object's state
    serialized   \* whether the caller serializes its sfo calls

vars == <<module, backend, lib, mem, owned, fn, call, prev, ncalls, pc, frame, opt,
          serialized>>

(* ------------------------------ bounds --------------------------------- *)

\* longest 1-D array the caller passes as x0 (besides the documented scenarios)
MaxLen == 2
\* number of operator calls one behaviour makes
MaxCalls == 2

(* --------------------------- rational numbers -------------------------- *)

Abs(n) == IF n < 0 THEN -n ELSE n

RECURSIVE GCD(_, _)
GCD(a, b) == IF b = 0 THEN a ELSE GCD(b, a % b)

Rat(n, d) ==
    LET s == IF d < 0 THEN -1 ELSE 1
        g == GCD(Abs(n), Abs(d))
    IN  <<(s * n) \div g, (s * d) \div g>>

Zero == <<0, 1>>
One == <<1, 1>>
Two == <<2, 1>>

\* over the least common denominator l
AddOver(p, q, l) == Rat(p[1] * (l \div p[2]) + q[1] * (l \div q[2]), l)
RAdd(p, q) == AddOver(p, q, (p[2] * q[2]) \div GCD(p[2], q[2]))
RNeg(p) == <<-p[1], p[2]>>
RSub(p, q) == RAdd(p, RNeg(q))
\* the product, with the common factors taken out before multiplying
RMul(p, q) ==
    Rat((p[1] \div GCD(Abs(p[1]), q[2])) * (q[1] \div GCD(Abs(q[1]), p[2])),
        (p[2] \div GCD(Abs(q[1]), p[2])) * (q[2] \div GCD(Abs(p[1]), q[2])))
\* true division; the callers below never divide by zero
RDiv(p, q) == RMul(p, IF q[1] < 0 THEN <<-q[2], -q[1]>> ELSE <<q[2], q[1]>>)
RLe(p, q) == p[1] * q[2] <= q[1] * p[2]
RLt(p, q) == p[1] * q[2] < q[1] * p[2]
RAbs(p) == <<Abs(p[1]), p[2]>>
RMax(p, q) == IF RLe(p, q) THEN q ELSE p
\* a Python bool used as a factor: True is 1, False is 0
BoolNum(b) == IF b THEN One ELSE Zero

(* -------------------------------- arrays ------------------------------- *)

Array(shape, data) == [shape |-> shape, data |-> data]
\* the value of a name that holds no array
NoArray == [shape |-> <<>>, data |-> <<>>]
Vec(data) == Array(<<Len(data)>>, data)
Size(a) == Len(a.data)
NDim(a) == Len(a.shape)

\* numpy's elementwise application of a scalar function: a new array
MapArr(F(_), a) == Array(a.shape, [i \in 1..Size(a) |-> F(a.data[i])])
\* elementwise combination of two arrays of the same shape: a new array
ZipArr(F(_, _), a, b) == Array(a.shape, [i \in 1..Size(a) |-> F(a.data[i], b.data[i])])

Full(n, v) == Vec([i \in 1..n |-> v])
\* scalar * array: a new array
Scale(c, a) == Array(a.shape, [i \in 1..Size(a) |-> RMul(c, a.data[i])])

RECURSIVE SumSeq(_)
SumSeq(s) == IF s = <<>> THEN Zero ELSE RAdd(s[1], SumSeq(Tail(s)))

SumSq(a) == SumSeq([i \in 1..Size(a) |-> RMul(a.data[i], a.data[i])])

\* ndarray.flatten(): a 1-D copy
Flatten(a) == Array(<<Size(a)>>, a.data)
\* ndarray.reshape(shape): the same data under another shape
Reshape(a, shape) == Array(shape, a.data)

(* ---- square matrices (shape <<n, n>>), for the two linear solves ---- *)

At(A, i, j) == A.data[(i - 1) * A.shape[2] + j]
Matrix(n, E(_, _)) ==
    Array(<<n, n>>, [k \in 1..(n * n) |-> E(((k - 1) \div n) + 1, ((k - 1) % n) + 1)])
\* A without row i and column j
Minor(A, i, j) ==
    LET n == A.shape[1]
    IN  Matrix(n - 1, LAMBDA r, c : At(A, IF r < i THEN r ELSE r + 1,
                                          IF c < j THEN c ELSE c + 1))
\* A with column j replaced by the vector b
WithColumn(A, j, b) ==
    Matrix(A.shape[1], LAMBDA r, c : IF c = j THEN b.data[r] ELSE At(A, r, c))

RECURSIVE Det(_)
Det(A) ==
    LET n == A.shape[1]
        RECURSIVE Expand(_)
        Expand(j) ==
            IF j > n THEN Zero
            ELSE RAdd(RMul(RMul(IF j % 2 = 1 THEN One ELSE RNeg(One), At(A, 1, j)),
                           Det(Minor(A, 1, j))),
                      Expand(j + 1))
    IN  IF n = 0 THEN One ELSE Expand(1)

\* the solution x of A x = b (A nonsingular), by Cramer's rule
SolveWith(A, b, detA) ==
    Vec([j \in 1..A.shape[1] |-> RDiv(Det(WithColumn(A, j, b)), detA)])
SolveExact(A, b) == SolveWith(A, b, Det(A))

(* ------------------- what an operator call hands back ------------------ *)

\* no external solver was run
NoExt == [name |-> "none"]
\* the call returns the new array v; mem is the caller's memory afterwards
Return(m, v) == [mem |-> m, ret |-> v, err |-> "none", ext |-> NoExt]
\* the call raises e
Raise(m, e) == [mem |-> m, ret |-> NoArray, err |-> e, ext |-> NoExt]

(* -------------------- closed-form algebraic operators ------------------ *)

\* np.maximum(x0, 0): a new array
np_maximum(a, v) == MapArr(LAMBDA e : RMax(e, v), a)

\* a faulty nonneg: rho used as the floor, np.maximum(x0, rho)
nonneg_floor_rho(m, x0, rho) == Return(m, np_maximum(m[x0], rho))

nonneg(m, x0, rho) == Return(m, np_maximum(m[x0], Zero))

\* a faulty lmbda: the quotient taken the other way round
lmbda_inverted(rho, gamma) == RDiv(rho, gamma)

\* lmbda = float(gamma) / rho
lmbda(rho, gamma) == RDiv(gamma, rho)

\* a faulty soft_threshold: a hard threshold, x0 * (x0 >= lmbda) + x0 * (x0 <= -lmbda)
soft_threshold_hard(e, l) ==
    RAdd(RMul(e, BoolNum(RLe(l, e))), RMul(e, BoolNum(RLe(e, RNeg(l)))))

\* one element of (x0 - lmbda) * (x0 >= lmbda) + (x0 + lmbda) * (x0 <= -lmbda)
soft_threshold(e, l) ==
    RAdd(RMul(RSub(e, l), BoolNum(RLe(l, e))),
         RMul(RAdd(e, l), BoolNum(RLe(e, RNeg(l)))))

sparse(m, x0, rho, gamma) ==
    Return(m, MapArr(LAMBDA e : soft_threshold(e, lmbda(rho, gamma)), m[x0]))

\* a faulty shrink: the weights of x0 and x_obs exchanged
shrink_swapped(e, o, rho) == RDiv(RAdd(e, RMul(o, rho)), RAdd(One, rho))

\* one element of (x0 + x_obs / rho) / (1 + 1 / rho)
shrink(e, o, rho) == RDiv(RAdd(e, RDiv(o, rho)), RAdd(One, RDiv(One, rho)))

squared_error(m, x0, rho, x_obs) ==
    Return(m, ZipArr(LAMBDA e, o : shrink(e, o, rho), m[x0], m[x_obs]))

\* np.linalg.svd of a 1 x 1 matrix [[a]]: u = [[sign a]], s = [|a|], v = [[1]];
\* an array of fewer than two dimensions is refused
svd(a) ==
    IF NDim(a) < 2 THEN [err |-> "LinAlgError"]
    ELSE [err |-> "none",
          u |-> IF RLt(a.data[1], Zero) THEN RNeg(One) ELSE One,
          s |-> RAbs(a.data[1]),
          v |-> One]

\* sthr = np.maximum(s - (gamma / float(rho)), 0); u.dot(np.diag(sthr)).dot(v)
reconstruct(d, shape, l) ==
    Array(shape, <<RMul(RMul(d.u, RMax(RSub(d.s, l), Zero)), d.v)>>)

nucnorm_of(m, d, shape, l) ==
    IF d.err # "none" THEN Raise(m, d.err) ELSE Return(m, reconstruct(d, shape, l))

nucnorm(m, x0, rho, gamma) == nucnorm_of(m, svd(m[x0]), m[x0].shape, RDiv(gamma, rho))

\* spdiags([(2 + rho / gamma) * ones, -ones, -ones], [0, -1, 1], n, n)
lap_op(n, rho, gamma) ==
    Matrix(n, LAMBDA i, j : IF i = j THEN RAdd(Two, RDiv(rho, gamma))
                            ELSE IF Abs(i - j) = 1 THEN RNeg(One) ELSE Zero)

\* spsolve(gamma * lap_op, rho * x0); gamma * lap_op is strictly diagonally
\* dominant for positive rho and gamma, so it is never singular
smooth(m, x0, rho, gamma) ==
    Return(m, SolveExact(Scale(gamma, lap_op(m[x0].shape[1], rho, gamma)),
                         Scale(rho, m[x0])))

\* np.linalg.solve(A, b): LinAlgError when A is singular
np_linalg_solve(m, A, b) ==
    IF Det(A) = Zero THEN Raise(m, "LinAlgError") ELSE Return(m, SolveExact(A, b))

\* np.eye(n)
np_eye(n) == Matrix(n, LAMBDA i, j : IF i = j THEN One ELSE Zero)
\* ndarray.copy()
Copy(a) == Array(a.shape, a.data)

\* a faulty linsys: the right-hand side built in place, x0 *= rho; x0 += q
linsys_inplace(m, x0, rho, P, q) ==
    np_linalg_solve([m EXCEPT ![x0] = ZipArr(RAdd, Scale(rho, m[x0]), m[q])],
                    ZipArr(RAdd, Scale(rho, np_eye(Size(m[q]))), m[P]),
                    ZipArr(RAdd, Scale(rho, m[x0]), m[q]))

\* np.linalg.solve(rho * np.eye(q.size) + P, rho * x0.copy() + q)
linsys(m, x0, rho, P, q) ==
    np_linalg_solve(m, ZipArr(RAdd, Scale(rho, np_eye(Size(m[q]))), m[P]),
                    ZipArr(RAdd, Scale(rho, Copy(m[x0])), m[q]))

(* ---------------------- iterative / delegate operators ----------------- *)

\* x.dot(w) for x of shape <<n, k>> and w of length k
Dot(x, w) ==
    Vec([i \in 1..x.shape[1] |->
            SumSeq([j \in 1..x.shape[2] |-> RMul(At(x, i, j), w.data[j])])])
\* x.T.dot(v) for x of shape <<n, k>> and v of length n
TDot(x, v) ==
    Vec([j \in 1..x.shape[2] |->
            SumSeq([i \in 1..x.shape[1] |-> RMul(At(x, i, j), v.data[i])])])
\* np.exp, which has a rational value at 0 only
Exp(r) == CASE r = Zero -> One
Mean(a) == RDiv(SumSeq(a.data), <<Size(a), 1>>)

\* a function of the caller, or the Poisson objective, applied to w
EvalF(f, w) ==
    CASE f.kind = "quad" ->
            SumSeq([i \in 1..Size(w) |->
                RAdd(RMul(RDiv(f.a, Two), RMul(w.data[i], w.data[i])),
                     RMul(f.b, w.data[i]))])
      [] f.kind = "poisson" ->
            \* np.mean(np.exp(x.dot(w)) - y * x.dot(w))
            Mean(ZipArr(LAMBDA e, t : RSub(Exp(e), t),
                        Dot(f.x, w), ZipArr(RMul, f.y, Dot(f.x, w))))

\* its gradient applied to w
EvalGrad(f, w) ==
    CASE f.kind = "quad" -> MapArr(LAMBDA e : RAdd(RMul(f.a, e), f.b), w)
      [] f.kind = "poisson" ->
            \* (x.T.dot(np.exp(x.dot(w))) - x.T.dot(y)) / n
            MapArr(LAMBDA e : RDiv(e, f.n),
                   ZipArr(RSub, TDot(f.x, MapArr(Exp, Dot(f.x, w))), TDot(f.x, f.y)))

\* g = lambda x: f(x) + (rho / 2) * np.sum((x.reshape(x0.shape) - x0) ** 2)
g(f, rho, x0, x) ==
    RAdd(EvalF(f, x), RMul(RDiv(rho, Two), SumSq(ZipArr(RSub, Reshape(x, x0.shape), x0))))

\* dg = lambda x: fgrad(x) + rho * (x.reshape(x0.shape) - x0)
dg(fgrad, rho, x0, x) ==
    ZipArr(RAdd, EvalGrad(fgrad, x),
           MapArr(LAMBDA e : RMul(rho, e), ZipArr(RSub, Reshape(x, x0.shape), x0)))

\* scipy's fmin_bfgs(g, x0, dg, disp=False): it starts at the flattened x0 and hands
\* back its last iterate alone; the iterate and the status it ends with (0 converged,
\* 1 iteration limit, 2 precision loss) are the library's, given by l
fmin_bfgs(l, f, fgrad, rho, x0) ==
    [name |-> "fmin_bfgs", f |-> f, fprime |-> fgrad, rho |-> rho, anchor |-> x0,
     x0 |-> Flatten(x0), warnflag |-> l.warnflag,
     xopt |-> MapArr(LAMBDA e : RAdd(e, l.step), Flatten(x0))]

\* the call returns what the external solver run r handed back
ReturnExt(m, v, r) == [mem |-> m, ret |-> v, err |-> "none", ext |-> r]

\* a faulty bfgs_return: a minimizer that did not converge is an error
bfgs_return_checked(m, r) ==
    IF r.warnflag # 0 THEN Raise(m, "ConvergenceError") ELSE ReturnExt(m, r.xopt, r)

bfgs_return(m, r) == ReturnExt(m, r.xopt, r)

bfgs(m, l, x0, rho, f, fgrad) == bfgs_return(m, fmin_bfgs(l, f, fgrad, rho, m[x0]))

\* n = float(x.shape[0]), and the two lambdas f and df
poisson(x, y) == [kind |-> "poisson", x |-> x, y |-> y, n |-> <<x.shape[1], 1>>]

poissreg(m, l, x0, rho, x, y) ==
    bfgs(m, l, x0, rho, poisson(m[x], m[y]), poisson(m[x], m[y]))

\* skimage's denoise_tv_bregman(image, weight): a new image, the library's
denoise_tv_bregman(l, image, weight) ==
    [name |-> "denoise_tv_bregman", image |-> image, weight |-> weight,
     out |-> MapArr(LAMBDA e : RAdd(e, l.step), image)]

tvd_return(m, r) == ReturnExt(m, r.out, r)

tvd(m, l, x0, rho, gamma) ==
    tvd_return(m, denoise_tv_bregman(l, m[x0], RDiv(rho, gamma)))

(* ------------------- the operators as Python functions ----------------- *)

Operators ==
    {"sfo", "poissreg", "bfgs", "smooth", "nucnorm", "squared_error", "tvd", "sparse",
     "nonneg", "linsys"}

\* def <operator>(x0, rho, ...): the parameters, in order
Params(op) ==
    CASE op = "sfo" -> <<"x0", "rho", "optimizer", "num_steps">>
      [] op = "poissreg" -> <<"x0", "rho", "x", "y">>
      [] op = "bfgs" -> <<"x0", "rho", "f", "fgrad">>
      [] op = "smooth" -> <<"x0", "rho", "gamma">>
      [] op = "nucnorm" -> <<"x0", "rho", "gamma">>
      [] op = "squared_error" -> <<"x0", "rho", "x_obs">>
      [] op = "tvd" -> <<"x0", "rho", "gamma">>
      [] op = "sparse" -> <<"x0", "rho", "gamma">>
      [] op = "nonneg" -> <<"x0", "rho">>
      [] op = "linsys" -> <<"x0", "rho", "P", "q">>

\* num_steps=50
DefaultNumSteps == 50

\* the parameters that have a default value
Defaults(op) == IF op = "sfo" THEN [num_steps |-> DefaultNumSteps] ELSE <<>>

\* Python's binding of a call's positional and keyword arguments to the parameters
PyBind(op, args, kw) ==
    LET P == Params(op)
        names == {P[i] : i \in 1..Len(P)}
        pos == {P[i] : i \in 1..(IF Len(args) < Len(P) THEN Len(args) ELSE Len(P))}
        given == pos \cup DOMAIN kw \cup DOMAIN Defaults(op)
    IN  IF \/ Len(args) > Len(P)
           \/ ~(DOMAIN kw \subseteq names)
           \/ DOMAIN kw \cap pos # {}
        THEN [status |-> "TypeError"]
        ELSE IF given # names
        THEN [status |-> "missing"]
        ELSE [status |-> "ok",
              locals |-> [p \in names |->
                  IF p \in pos THEN args[CHOOSE i \in 1..Len(P) : P[i] = p]
                  ELSE IF p \in DOMAIN kw THEN kw[p]
                  ELSE Defaults(op)[p]]]

\* @curry: the module-level name of an operator, nothing bound yet
curry(op) == [func |-> op, args |-> <<>>, keywords |-> <<>>]

\* no curried function
NoFn == [func |-> "none", args |-> <<>>, keywords |-> <<>>]

\* a faulty CurryCall: a plain function, whose call with x0 missing is an error
CurryCall_plain(c, args, kw) ==
    IF PyBind(c.func, c.args \o args, kw @@ c.keywords).status = "ok"
    THEN [kind |-> "ran", locals |-> PyBind(c.func, c.args \o args, kw @@ c.keywords).locals]
    ELSE [kind |-> "TypeError"]

\* calling a curried function: the new arguments join the bound ones; when the
\* function's required parameters are all given its body runs, when some are
\* missing the result is a curried function holding all of them, and any other
\* TypeError is raised
CurryCall(c, args, kw) ==
    LET allargs == c.args \o args
        allkw == kw @@ c.keywords
        b == PyBind(c.func, allargs, allkw)
    IN  IF b.status = "ok" THEN [kind |-> "ran", locals |-> b.locals]
        ELSE IF b.status = "missing"
        THEN [kind |-> "curried",
              fn |-> [func |-> c.func, args |-> allargs, keywords |-> allkw]]
        ELSE [kind |-> "TypeError"]

\* the body of an operator other than sfo, run on its bound parameters
RunBody(op, L, m, l) ==
    CASE op = "poissreg" -> poissreg(m, l, L.x0, L.rho, L.x, L.y)
      [] op = "bfgs" -> bfgs(m, l, L.x0, L.rho, L.f, L.fgrad)
      [] op = "smooth" -> smooth(m, L.x0, L.rho, L.gamma)
      [] op = "nucnorm" -> nucnorm(m, L.x0, L.rho, L.gamma)
      [] op = "squared_error" -> squared_error(m, L.x0, L.rho, L.x_obs)
      [] op = "tvd" -> tvd(m, l, L.x0, L.rho, L.gamma)
      [] op = "sparse" -> sparse(m, L.x0, L.rho, L.gamma)
      [] op = "nonneg" -> nonneg(m, L.x0, L.rho)
      [] op = "linsys" -> linsys(m, L.x0, L.rho, L.P, L.q)

(* ----------------------- the SFO optimizer object ---------------------- *)

Threads == {"main", "worker"}
Handles == {"sfo1", "sfo2"}

\* an optimizer the caller has built and not yet handed to sfo; calls lists the
\* methods called on it since the sfo call that last started on it, users the
\* threads that have handed it to sfo
NewOptimizer ==
    [theta |-> NoArray, weight |-> Zero, theta_admm_prev |-> NoArray,
     num_steps |-> 0, out |-> NoArray, calls |-> <<>>, users |-> {}]

\* optimizer.set_theta(value, weight): value at weight becomes the current point
set_theta(o, value, weight) ==
    [o EXCEPT !.theta = value, !.weight = weight, !.calls = Append(@, "set_theta")]

\* optimizer.theta_original_to_flat(value): value as a column vector
theta_original_to_flat(value) == Array(<<Size(value), 1>>, value.data)

\* optimizer.optimize(num_steps): the current point moves (by step, the
\* optimizer's own business) and is handed back flat
optimize(o, num_steps, step) ==
    LET moved == MapArr(LAMBDA e : RAdd(e, step), o.theta)
    IN  [o EXCEPT !.theta = moved, !.num_steps = num_steps,
                  !.out = theta_original_to_flat(moved),
                  !.calls = Append(@, "optimize")]

\* float(rho)
float(r) == Rat(r[1], r[2])

(* ------------------- sfo, statement by statement ----------------------- *)

\* optimizer.set_theta(x0, float(rho))
sfo_set_theta(o, L, m) == set_theta(o, m[L.x0], float(L.rho))

\* a faulty sfo_admm_prev: the flattened x0 is computed and not stored
sfo_admm_prev_stale(o, L, m) ==
    [o EXCEPT !.calls = Append(@, "theta_original_to_flat")]

\* optimizer.theta_admm_prev = optimizer.theta_original_to_flat(x0)
sfo_admm_prev(o, L, m) ==
    [o EXCEPT !.theta_admm_prev = theta_original_to_flat(m[L.x0]),
              !.calls = Append(@, "theta_original_to_flat")]

\* optimizer.optimize(num_steps=num_steps)
sfo_optimize(o, L, l) == optimize(o, L.num_steps, l.step)

\* a faulty sfo_return: the optimizer's current point, not what optimize returned
sfo_return_point(o) == o.theta

\* return <what optimize returned>
sfo_return(o) == o.out

(* ------------------------- the caller's inputs ------------------------- *)

CoreValues == {Rat(-3, 1), Zero, Rat(1, 2), Rat(2, 1)}
\* the arrays of the documented scenarios
Scenarios ==
    {Vec(<<Rat(3, 1), Rat(-3, 1), Rat(1, 2)>>),
     Vec(<<Rat(-1, 1), Rat(2, 1), Zero>>),
     Vec(<<One>>)}
Vectors(n, S) == {Vec(d) : d \in [1..n -> S]}
X0s ==
    UNION {Vectors(n, CoreValues) : n \in 1..MaxLen}
        \cup Scenarios
        \cup {Array(<<1, 1>>, <<v>>) : v \in CoreValues}

\* rho is a positive float; nonneg takes any rho
Rhos == {Rat(1, 2), One, Two}
SomeRhos == {One, Two}
AnyRhos == {Rat(-1, 1), Zero, One, Rat(5, 1)}
Gammas == {One, Two}
\* the caller's functions for bfgs: f(x) = sum((a / 2) x^2 + b x), with its gradient
Fs == {[kind |-> "quad", a |-> Zero, b |-> One],
       [kind |-> "quad", a |-> Two, b |-> Rat(-1, 1)]}
\* the symmetric matrices P of linsys; the last makes rho I + P singular at rho = 1
Ps(n) ==
    {Matrix(n, LAMBDA i, j : IF i = j THEN One ELSE Zero),
     Matrix(n, LAMBDA i, j : IF i = j THEN Two ELSE One),
     Matrix(n, LAMBDA i, j : IF i = j THEN Rat(-1, 1) ELSE Zero)}
\* the observed matrices x_obs of squared_error, for an x0 of n elements
Obs(n) ==
    {Full(n, Rat(-1, 1)), Full(n, Rat(3, 1)),
     Vec([i \in 1..n |-> IF i % 2 = 1 THEN Rat(3, 1) ELSE Rat(-1, 1)])}
\* what the external solvers may do: the status fmin_bfgs ends with, and how far
\* a solver's result lies from its starting point
LibOutcomes ==
    {[warnflag |-> 0, step |-> One], [warnflag |-> 1, step |-> Zero],
     [warnflag |-> 2, step |-> Rat(1, 2)]}
\* nothing is known of the library before one of its solvers has run
NoLib == [warnflag |-> -1, step |-> Zero]
UsesLib(op) == op \in {"bfgs", "poissreg", "tvd", "sfo"}
\* the behaviours the library may turn out to have, when lib is what is known of it
LibChoices(op) == IF lib = NoLib /\ UsesLib(op) THEN LibOutcomes ELSE {lib}

Bound(kw, a, b) == [kw |-> kw, a |-> a, b |-> b]

\* the ways the caller binds rho and the extra parameters of op, for an x0 like x:
\* the keywords, and the auxiliary arrays it stores under the names a and b
BindChoices(op, x) ==
    CASE op = "nonneg" -> {Bound([rho |-> r], NoArray, NoArray) : r \in AnyRhos}
      [] op = "sparse" ->
            {Bound([rho |-> rg[1], gamma |-> rg[2]], NoArray, NoArray) :
                rg \in Rhos \X Gammas}
      [] op = "tvd" ->
            {Bound([rho |-> r, gamma |-> Two], NoArray, NoArray) : r \in SomeRhos}
      [] op = "nucnorm" ->
            {Bound([rho |-> r, gamma |-> One], NoArray, NoArray) :
                r \in IF NDim(x) = 2 THEN Rhos ELSE {One}}
      [] op = "smooth" ->
            {Bound([rho |-> r, gamma |-> One], NoArray, NoArray) :
                r \in IF NDim(x) = 1 THEN {One} ELSE {}}
      [] op = "squared_error" ->
            {Bound([rho |-> ro[1], x_obs |-> "a"], Reshape(ro[2], x.shape), NoArray) :
                ro \in Rhos \X Obs(Size(x))}
      [] op = "linsys" ->
            {Bound([rho |-> One, P |-> "a", q |-> "b"], P, Full(Size(x), One)) :
                P \in IF NDim(x) = 1 THEN Ps(Size(x)) ELSE {}}
      [] op = "poissreg" ->
            {Bound([rho |-> r, x |-> "a", y |-> "b"],
                   Array(<<1, Size(x)>>, [i \in 1..Size(x) |-> One]), Vec(<<One>>)) :
                r \in IF NDim(x) = 1 THEN SomeRhos ELSE {}}
      [] op = "bfgs" ->
            {Bound([rho |-> rf[1], f |-> rf[2], fgrad |-> rf[2]], NoArray, NoArray) :
                rf \in SomeRhos \X Fs}
      [] op = "sfo" ->
            {Bound([rho |-> One, optimizer |-> "sfo1"], NoArray, NoArray),
             Bound([rho |-> Two, optimizer |-> "sfo2"], NoArray, NoArray),
             Bound([rho |-> Two, optimizer |-> "sfo1", num_steps |-> 1],
                   NoArray, NoArray)}

\* whether the array x is one the caller may pass as x0 to the bound function c
InputOk(c, m, x) ==
    /\ x # NoArray
    /\ c.func = "squared_error" => x.shape = m[c.keywords.x_obs].shape
    /\ c.func = "nucnorm" => NDim(x) = 1 \/ x.shape = <<1, 1>>
    /\ c.func = "smooth" => NDim(x) = 1
    /\ c.func = "linsys" => NDim(x) = 1 /\ Size(x) = Size(m[c.keywords.q])
    /\ c.func = "poissreg" => NDim(x) = 1 /\ Size(x) = m[c.keywords.x].shape[2]

(* ------------------------------ the state ------------------------------ *)

NoCall ==
    [op |-> "none", thread |-> "none", locals |-> <<>>, x0val |-> NoArray,
     ret |-> NoArray, err |-> "none", ext |-> NoExt]
NoFrame == <<>>

Init ==
    /\ module = "unloaded"
    /\ backend \in BOOLEAN
    /\ lib = NoLib
    /\ \E x \in X0s : mem = [x0 |-> x, a |-> NoArray, b |-> NoArray, ret |-> NoArray]
    /\ owned = mem
    /\ fn = NoFn
    /\ call = NoCall
    /\ prev = NoCall
    /\ ncalls = 0
    /\ pc = [t \in Threads |-> "idle"]
    /\ frame = [t \in Threads |-> NoFrame]
    /\ opt = [h \in Handles |-> NewOptimizer]
    /\ serialized = TRUE

\* import proxalgs.operators: the module's import statements run, among them
\* "from skimage.restoration import denoise_tv_bregman"
ImportOutcome(available) == IF available THEN "loaded" ELSE "ImportError"

Load ==
    /\ module = "unloaded"
    /\ module' = ImportOutcome(backend)
    /\ UNCHANGED <<backend, lib, mem, owned, fn, call, prev, ncalls, pc, frame, opt,
                   serialized>>

\* thread t calls the curried function c with args and kw, m being the memory
Invoke(t, c, args, kw, m, o) ==
    \E r \in {CurryCall(c, args, kw)} :
        IF r.kind = "curried"
        THEN /\ fn' = r.fn
             /\ mem' = m
             /\ owned' = o
             /\ UNCHANGED <<lib, call, prev, ncalls, pc, frame, opt>>
        ELSE IF r.kind = "TypeError"
        THEN /\ call' = [NoCall EXCEPT !.op = c.func, !.thread = t, !.err = "TypeError"]
             /\ prev' = call
             /\ mem' = m
             /\ owned' = o
             /\ UNCHANGED <<lib, fn, ncalls, pc, frame, opt>>
        ELSE IF c.func = "sfo"
        THEN /\ pc' = [pc EXCEPT ![t] = "set_theta"]
             /\ frame' = [frame EXCEPT ![t] = r.locals]
             /\ opt' = [opt EXCEPT ![r.locals.optimizer].calls = <<>>,
                                    ![r.locals.optimizer].users = @ \cup {t}]
             /\ ncalls' = ncalls + 1
             /\ mem' = m
             /\ owned' = o
             /\ UNCHANGED <<lib, fn, call, prev>>
        ELSE \E l \in LibChoices(c.func) : \E res \in {RunBody(c.func, r.locals, m, l)} :
                 /\ lib' = l
                 /\ call' = [op |-> c.func, thread |-> t, locals |-> r.locals,
                             x0val |-> m[r.locals.x0], ret |-> res.ret,
                             err |-> res.err, ext |-> res.ext]
                 /\ prev' = call
                 /\ ncalls' = ncalls + 1
                 /\ mem' = IF res.err = "none" THEN [res.mem EXCEPT !.ret = res.ret]
                                               ELSE res.mem
                 /\ owned' = IF res.err = "none" THEN [o EXCEPT !.ret = res.ret] ELSE o
                 /\ UNCHANGED <<fn, pc, frame, opt>>

\* the caller binds rho and the extra parameters of an operator, by keyword
Bind ==
    /\ module = "loaded"
    /\ fn = NoFn
    /\ \E op \in Operators : \E c \in BindChoices(op, mem.x0) :
          Invoke("main", curry(op), <<>>, c.kw,
                 [mem EXCEPT !.a = c.a, !.b = c.b], [owned EXCEPT !.a = c.a, !.b = c.b])
    /\ UNCHANGED <<module, backend, serialized>>

\* the caller applies the bound function to x0, or to the last result
Apply ==
    /\ fn # NoFn
    /\ pc["main"] = "idle"
    /\ ncalls < MaxCalls
    /\ \E src \in {"x0", "ret"} :
          /\ InputOk(fn, mem, mem[src])
          /\ Invoke("main", fn, <<src>>, <<>>, mem, owned)
    /\ UNCHANGED <<module, backend, serialized>>

SfoSetTheta(t) ==
    /\ pc[t] = "set_theta"
    /\ opt' = [opt EXCEPT ![frame[t].optimizer] = sfo_set_theta(@, frame[t], mem)]
    /\ pc' = [pc EXCEPT ![t] = "admm_prev"]
    /\ UNCHANGED <<module, backend, lib, mem, owned, fn, call, prev, ncalls, frame,
                   serialized>>

SfoAdmmPrev(t) ==
    /\ pc[t] = "admm_prev"
    /\ opt' = [opt EXCEPT ![frame[t].optimizer] = sfo_admm_prev(@, frame[t], mem)]
    /\ pc' = [pc EXCEPT ![t] = "optimize"]
    /\ UNCHANGED <<module, backend, lib, mem, owned, fn, call, prev, ncalls, frame,
                   serialized>>

SfoOptimize(t) ==
    /\ pc[t] = "optimize"
    /\ \E l \in LibChoices("sfo") :
          \E h \in {frame[t].optimizer} : \E o \in {sfo_optimize(opt[h], frame[t], l)} :
              /\ lib' = l
              /\ opt' = [opt EXCEPT ![h] = o]
              /\ call' = [op |-> "sfo", thread |-> t, locals |-> frame[t],
                          x0val |-> mem[frame[t].x0], ret |-> sfo_return(o),
                          err |-> "none", ext |-> NoExt]
              /\ mem' = IF t = "main" THEN [mem EXCEPT !.ret = sfo_return(o)] ELSE mem
              /\ owned' = IF t = "main" THEN [owned EXCEPT !.ret = sfo_return(o)]
                                         ELSE owned
    /\ prev' = call
    /\ pc' = [pc EXCEPT ![t] = "idle"]
    /\ frame' = [frame EXCEPT ![t] = NoFrame]
    /\ UNCHANGED <<module, backend, fn, ncalls, serialized>>

Next ==
    \/ Load
    \/ Bind
    \/ Apply
    \/ SfoSetTheta("main")
    \/ SfoAdmmPrev("main")
    \/ SfoOptimize("main")

Spec == Init /\ [][Next]_vars

(* ------------------- two threads that both call sfo -------------------- *)

InitThreads ==
    /\ module = "loaded"
    /\ backend = TRUE
    /\ lib = NoLib
    /\ mem = [x0 |-> Full(MaxLen, One), a |-> Full(MaxLen, Rat(-3, 1)),
              b |-> NoArray, ret |-> NoArray]
    /\ owned = mem
    /\ fn = NoFn
    /\ call = NoCall
    /\ prev = NoCall
    /\ ncalls = 0
    /\ pc = [t \in Threads |-> "idle"]
    /\ frame = [t \in Threads |-> NoFrame]
    /\ opt = [h \in Handles |-> NewOptimizer]
    /\ serialized \in BOOLEAN

\* thread t calls sfo(x0, rho, optimizer); a caller that serializes lets no call
\* start on an optimizer another thread's call is using
CallSfo(t) ==
    /\ pc[t] = "idle"
    /\ ncalls < MaxCalls
    /\ \E src \in {"x0", "a"} : \E rho \in SomeRhos : \E h \in Handles :
          /\ serialized =>
                \A u \in Threads \ {t} :
                    IF pc[u] = "idle" THEN TRUE ELSE frame[u].optimizer # h
          /\ Invoke(t, curry("sfo"), <<src, rho, h>>, <<>>, mem, owned)
    /\ UNCHANGED <<module, backend, serialized>>

NextThreads ==
    \E t \in Threads :
        \/ CallSfo(t)
        \/ SfoSetTheta(t)
        \/ SfoAdmmPrev(t)
        \/ SfoOptimize(t)

SpecThreads == InitThreads /\ [][NextThreads]_vars

(* ------------------------------- claims -------------------------------- *)

Elems(a) == 1..Size(a)
\* the memory a call saw: the one of now, with the call's x0 as it was
MemAt(c) == [mem EXCEPT ![c.locals.x0] = c.x0val]
Returned(op) == call.op = op /\ call.err = "none"

\* C1: sparse(x0, rho, gamma), for positive rho and gamma, is the elementwise
\* soft-threshold with lambda = gamma / rho: x0[i] - lambda where x0[i] >= lambda,
\* x0[i] + lambda where x0[i] <= -lambda, and 0 elsewhere.
C1_SoftThreshold ==
    call.op = "sparse" =>
        /\ call.err = "none"
        /\ call.ret.shape = call.x0val.shape
        /\ \A i \in Elems(call.x0val) :
              LET x == call.x0val.data[i]
                  y == call.ret.data[i]
                  l == RDiv(call.locals.gamma, call.locals.rho)
              IN  /\ RLe(l, x) => y = RSub(x, l)
                  /\ RLe(x, RNeg(l)) => y = RAdd(x, l)
                  /\ (RLt(x, l) /\ RLt(RNeg(l), x)) => y = Zero

\* sparse([3, -3, 0.5], rho=1, gamma=1) has returned [2, -2, 0]
C1_Witness ==
    /\ Returned("sparse")
    /\ call.x0val = Vec(<<Rat(3, 1), Rat(-3, 1), Rat(1, 2)>>)
    /\ call.locals.rho = One /\ call.locals.gamma = One
    /\ call.ret = Vec(<<Two, Rat(-2, 1), Zero>>)

\* the bound sparse has been applied to x0 and then to its own result
SparseTwice ==
    /\ call.op = "sparse" /\ prev.op = "sparse"
    /\ call.locals.x0 = "ret"
    /\ call.x0val = prev.ret

\* C2, as claimed: a second application of sparse with the same (rho, gamma) to
\* the result of the first changes nothing.
C2_Idempotent == SparseTwice => call.ret = prev.ret

\* C2, amended: the second application changes nothing exactly when every
\* element of x0 has magnitude at most lambda = gamma / rho (the first result is
\* all zeros); an element beyond lambda is moved again, toward zero.
C2_IdempotentIffWithinThreshold ==
    SparseTwice =>
        LET l == RDiv(call.locals.gamma, call.locals.rho)
        IN  /\ call.ret = prev.ret
                <=> \A i \in Elems(prev.x0val) : RLe(RAbs(prev.x0val.data[i]), l)
            /\ \A i \in Elems(prev.x0val) :
                  RLt(l, RAbs(prev.x0val.data[i])) =>
                      RLt(RAbs(call.ret.data[i]), RAbs(prev.ret.data[i]))

\* sparse applied twice to an x0 within the threshold, with a non-zero element
C2_Witness ==
    /\ SparseTwice
    /\ call.ret = prev.ret
    /\ \E i \in Elems(prev.x0val) : prev.x0val.data[i] # Zero

\* C7: squared_error(x0, rho, x_obs) is the weighted average
\* (rho * x0 + x_obs) / (rho + 1): each element lies between those of x0 and
\* x_obs, rho = 1 gives their plain average, and a larger rho gives a result at
\* least as close to x0.
C7_WeightedAverage ==
    call.op = "squared_error" =>
        /\ call.err = "none"
        /\ call.ret.shape = call.x0val.shape
        /\ \A i \in Elems(call.x0val) :
              LET x == call.x0val.data[i]
                  o == mem[call.locals.x_obs].data[i]
                  y == call.ret.data[i]
                  rho == call.locals.rho
              IN  /\ RMul(y, RAdd(rho, One)) = RAdd(RMul(rho, x), o)
                  /\ RLe(IF RLe(x, o) THEN x ELSE o, y)
                  /\ RLe(y, RMax(x, o))
                  /\ rho = One => RAdd(y, y) = RAdd(x, o)
                  /\ \A r \in Rhos :
                        RLe(rho, r) =>
                            RLe(RAbs(RSub(shrink(x, o, r), x)), RAbs(RSub(y, x)))

\* squared_error(x0=[1], rho=1, x_obs=[3]) has returned [2]
C7_Witness ==
    /\ Returned("squared_error")
    /\ call.x0val = Vec(<<One>>)
    /\ mem[call.locals.x_obs] = Vec(<<Rat(3, 1)>>)
    /\ call.locals.rho = One
    /\ call.ret = Vec(<<Two>>)

\* C8: nonneg(x0, rho) is the elementwise max(x0, 0) whatever rho is: no negative
\* element, the non-negative elements of x0 kept, the same array for every other
\* rho, and no error.
C8_NonnegProjection ==
    call.op = "nonneg" =>
        /\ call.err = "none"
        /\ call.ret.shape = call.x0val.shape
        /\ \A i \in Elems(call.x0val) :
              LET x == call.x0val.data[i]
                  y == call.ret.data[i]
              IN  /\ RLe(Zero, y)
                  /\ RLe(Zero, x) => y = x
                  /\ RLt(x, Zero) => y = Zero
        /\ \A r \in AnyRhos :
              nonneg(MemAt(call), call.locals.x0, r).ret = call.ret

\* nonneg([-1, 2, 0], rho=5) has returned [0, 2, 0]
C8_Witness ==
    /\ Returned("nonneg")
    /\ call.x0val = Vec(<<Rat(-1, 1), Two, Zero>>)
    /\ call.locals.rho = Rat(5, 1)
    /\ call.ret = Vec(<<Zero, Two, Zero>>)

\* C9, as claimed: with the total-variation backend unavailable the dependency
\* error is raised when tvd is called and not before, so a program that has not
\* called tvd has not met it.
C9_ErrorOnlyAtTvdCall == module = "ImportError" => call.op = "tvd"

\* the direct call operator(x0, rho, extra_params) with the values fn has bound:
\* its arguments, in the order of the parameters
DirectArgs(op, L) ==
    [i \in 1..(1 + Cardinality(DOMAIN fn.keywords)) |-> L[Params(op)[i]]]

\* C3: binding rho and the extra parameters without x0 gives a function of x0
\* alone and runs no operator body (for sfo the optimizer is not touched);
\* applying it, any number of times, does what the direct call
\* operator(x0, rho, extra_params) does, with the bound values as they were bound.
C3_Currying ==
    /\ call.err # "TypeError"
    /\ fn # NoFn =>
          /\ fn.args = <<>>
          /\ DOMAIN fn.keywords \subseteq {Params(fn.func)[i] : i \in 2..Len(Params(fn.func))}
          /\ "rho" \in DOMAIN fn.keywords
    /\ (fn # NoFn /\ ncalls = 0) =>
          /\ call = NoCall
          /\ lib = NoLib
          /\ mem.ret = NoArray
          /\ \A t \in Threads : pc[t] = "idle"
          /\ \A h \in Handles : opt[h] = NewOptimizer
    /\ \A c \in {call, prev} :
          c.op # "none" =>
              LET d == CurryCall(curry(c.op), DirectArgs(c.op, c.locals), <<>>)
              IN  /\ c.op = fn.func
                  /\ \A k \in DOMAIN fn.keywords : c.locals[k] = fn.keywords[k]
                  /\ d.kind = "ran"
                  /\ d.locals = c.locals
                  /\ c.op # "sfo" =>
                        \A res \in {RunBody(c.op, d.locals, MemAt(c), lib)} :
                            res.ret = c.ret /\ res.err = c.err

\* a bound sfo has been applied twice
C3_Witness ==
    /\ fn.func = "sfo"
    /\ call.op = "sfo" /\ prev.op = "sfo"
    /\ pc["main"] = "idle"

\* C4: one sfo call does set_theta(x0, rho), then theta_admm_prev :=
\* theta_original_to_flat(x0), then optimize(num_steps), num_steps being 50 when
\* omitted: when optimize starts the optimizer's current point is this call's x0
\* at weight rho and its previous-ADMM point this call's flattened x0, whatever
\* earlier calls left, and the call returns what optimize returned.
C4_SfoSteps ==
    /\ pc["main"] = "set_theta" => opt[frame["main"].optimizer].calls = <<>>
    /\ pc["main"] = "admm_prev" => opt[frame["main"].optimizer].calls = <<"set_theta">>
    /\ pc["main"] = "optimize" =>
          LET L == frame["main"]
              o == opt[L.optimizer]
          IN  /\ o.calls = <<"set_theta", "theta_original_to_flat">>
              /\ o.theta = mem[L.x0]
              /\ o.weight = L.rho
              /\ o.theta_admm_prev = Array(<<Size(mem[L.x0]), 1>>, mem[L.x0].data)
    /\ (call.op = "sfo" /\ pc["main"] = "idle") =>
          LET L == call.locals
              o == opt[L.optimizer]
          IN  /\ o.calls = <<"set_theta", "theta_original_to_flat", "optimize">>
              /\ call.err = "none"
              /\ call.ret = o.out
              /\ o.num_steps = L.num_steps
              /\ "num_steps" \notin DOMAIN fn.keywords => o.num_steps = 50

\* optimize is about to start in a second sfo call, on another x0 than the first
C4_Witness ==
    /\ pc["main"] = "optimize"
    /\ call.op = "sfo"
    /\ call.x0val # mem[frame["main"].x0]
    /\ opt[frame["main"].optimizer].out # NoArray

\* C5: the operators other than sfo leave the caller's arrays as they were, and a
\* call with the same arguments returns the same result whatever preceded it;
\* only sfo changes state, and only that of the optimizer handed to it.
C5_Pure ==
    /\ mem = owned
    /\ \A h \in Handles :
          (IF fn.func = "sfo" THEN fn.keywords.optimizer # h ELSE TRUE) =>
              opt[h] = NewOptimizer
    /\ \A c \in {call, prev} :
          c.op \notin {"none", "sfo"} =>
              \A res \in {RunBody(c.op, c.locals, MemAt(c), lib)} :
                  res.ret = c.ret /\ res.err = c.err /\ res.mem = MemAt(c)
    /\ (call.op = prev.op /\ call.op \notin {"none", "sfo"}
            /\ call.x0val = prev.x0val) =>
          call.ret = prev.ret /\ call.err = prev.err

\* linsys has returned twice for the same x0
C5_Witness ==
    /\ Returned("linsys")
    /\ prev.op = "linsys"
    /\ call.x0val = prev.x0val
    /\ mem.x0 = call.x0val

\* thread t is about to run optimize on an optimizer whose current point,
\* weight or previous-ADMM point is not the one its own call wrote
Mismatch(t) ==
    /\ pc[t] = "optimize"
    /\ LET L == frame[t]
           o == opt[L.optimizer]
       IN  \/ o.theta # mem[L.x0]
           \/ o.weight # L.rho
           \/ o.theta_admm_prev # Array(<<Size(mem[L.x0]), 1>>, mem[L.x0].data)

\* C6: optimize can start on another call's point only when two calls run on the
\* same optimizer instance unserialized: never when the caller serializes them,
\* and never on an optimizer no other thread has handed to sfo.
C6_UnsafeOnlyWhenShared ==
    \A t \in Threads :
        Mismatch(t) =>
            /\ ~serialized
            /\ \E u \in Threads \ {t} : u \in opt[frame[t].optimizer].users

\* two unserialized calls with different x0 on one optimizer: one is about to run
\* optimize while the current point is the one the other wrote
C6_Witness ==
    \E t \in Threads : \E u \in Threads \ {t} :
        /\ pc[t] = "optimize" /\ pc[u] # "idle"
        /\ frame[t].optimizer = frame[u].optimizer
        /\ frame[t].x0 # frame[u].x0
        /\ opt[frame[t].optimizer].theta = mem[frame[u].x0]
        /\ Mismatch(t)

\* the points at which the objectives are compared
Probes(f, n) ==
    IF f.kind = "poisson" THEN {Full(n, Zero)}
    ELSE {Full(n, Zero), Full(n, One), Full(n, Rat(-3, 1))}

\* what C10 says of a returned call c of bfgs or poissreg, e being the minimizer
\* run it made, x0 and rho its arguments, f and fgrad its objective and gradient
BfgsContract(c, e, x0, rho, f, fgrad) ==
    /\ e.name = "fmin_bfgs"
    /\ e.x0 = Array(<<Size(x0)>>, x0.data)
    /\ c.err = "none"
    /\ c.ret = e.xopt
    /\ e.warnflag = lib.warnflag
    /\ \A x \in Probes(f, Size(x0)) :
          /\ g(e.f, e.rho, e.anchor, x)
                = RAdd(EvalF(f, x),
                       RMul(RDiv(rho, Two),
                            SumSeq([i \in Elems(x0) |->
                                RMul(RSub(x.data[i], x0.data[i]),
                                     RSub(x.data[i], x0.data[i]))])))
          /\ \A d \in {dg(e.fprime, e.rho, e.anchor, x)} :
                \A gr \in {EvalGrad(fgrad, x)} :
                    \A i \in Elems(x0) :
                        d.data[i] = RAdd(gr.data[i],
                                         RMul(rho, RSub(x.data[i], x0.data[i])))
    /\ c.op = "poissreg" =>
          /\ c.ret = bfgs(MemAt(c), lib, c.locals.x0, rho, f, fgrad).ret
          /\ EvalF(e.f, Full(Size(x0), Zero)) = One

\* C10: bfgs starts the minimizer at x0 on f(x) + (rho / 2) ||x - x0||^2 with
\* gradient fgrad(x) + rho (x - x0) and returns its final iterate whatever status
\* the minimizer ends with, with no error; poissreg returns what bfgs returns
\* for the Poisson objective and gradient.
C10_BfgsReturnsIterate ==
    /\ call.op = "bfgs" =>
          BfgsContract(call, call.ext, call.x0val, call.locals.rho,
                       call.locals.f, call.locals.fgrad)
    /\ call.op = "poissreg" =>
          BfgsContract(call, call.ext, call.x0val, call.locals.rho,
                       poisson(mem[call.locals.x], mem[call.locals.y]),
                       poisson(mem[call.locals.x], mem[call.locals.y]))

\* poissreg has returned although the minimizer hit its iteration limit
C10_Witness ==
    /\ Returned("poissreg")
    /\ call.ext.warnflag = 1
    /\ call.ret = call.ext.xopt

====
